---- MODULE Spec2Model ----
(***************************************************************************)
(* A model of the phishin command line client (package cli).               *)
(*                                                                         *)
(* Strings are TLA+ strings.  A URL is kept as the sequence of the pieces  *)
(* that fmt.Sprintf and strings.Join concatenate (base, "/", path, "?",    *)
(* parameters, "&"), so that its separators can be inspected; the string   *)
(* the program sends is the concatenation of the pieces.                   *)
(*                                                                         *)
(* The command line is a sequence of string tokens, as Run receives it.    *)
(* Tokens of the form -name=value are outside the modelled universe.       *)
(***************************************************************************)
EXTENDS Integers, Sequences, FiniteSets, TLC

VARIABLES
    args,       \* the command line handed to Run / fromArgs (os.Args[1:])
    apiKey,     \* value of the environment variable PHISHIN_API_KEY
    c,          \* the Client: Query, Parameters, PrintJSON, Verbose, ...
    pc,         \* position of the invocation
    exitCode,   \* exit status of the process, -1 while it is still running
    parsed,     \* TRUE once the flag set has parsed the command line
    err,        \* error returned by fromArgs ("" is nil)
    runErr,     \* error returned by c.run ("" is nil)
    requests,   \* URLs of the HTTP requests issued so far, in order
    url,        \* last result of FormatURL
    nTracks,    \* number of tracks of the show whose download was requested
    tasks,      \* the functions handed to ErrGroup.Go, in order of submission
    files,      \* the file each of these functions creates, in the same order
    data,       \* what the server holds: the decoded Data of its answer
    printed,    \* what has been written to c.Output, in order
    statusLine, \* the status line of the console: 0 blank, i the status of
                \* the i-th function
    out,        \* result of the transform or renderer applied last
    pipeline,   \* the function that run has handed the request to
    dirs,       \* names of the directories that exist in the working directory
    answer,     \* what the server answered to the main request
    tips        \* how often searchTips has been written to os.Stderr

vars == <<args, apiKey, c, pc, exitCode, parsed, err, runErr, requests, url,
          nTracks, tasks, files, data, printed, statusLine, out, pipeline,
          dirs, answer, tips>>

----------------------------------------------------------------------------
(* Bounds of the model *)

MaxNeg == 1         \* integer flags are given values down to -MaxNeg
MaxInt == 2         \* largest small integer given to an integer flag
MaxParams == 2      \* longest Parameters list handed to FormatURL directly
MaxTracks == 2      \* most tracks in a show response
MaxDownloads == 5   \* most tracks of a show that is downloaded in full
MaxHours == 25      \* longest duration on the wire, in hours
MaxItems == 2       \* most entries on a page of a list response
MaxSetTracks == 3   \* most tracks of a show that is rendered

(* Program constants *)

DefaultPerPage == 20
DefaultPage == 1
GroupLimit == 4

BaseURL == "https://phish.in/api/v1"

erasPath == "eras"
yearsPath == "years"
songsPath == "songs"
toursPath == "tours"
venuesPath == "venues"
showsPath == "shows"
showOnDatePath == "show-on-date"
showsDayOfYearPath == "shows-on-day-of-year"
randomShowPath == "random-show"
tracksPath == "tracks"
searchPath == "search"
tagsPath == "tags"

Endpoints ==
    {erasPath, yearsPath, songsPath, toursPath, venuesPath, showsPath,
     showOnDatePath, showsDayOfYearPath, randomShowPath, tracksPath,
     searchPath, tagsPath}

----------------------------------------------------------------------------
(* The Client *)

NewClient(key) ==
    [BaseURL |-> BaseURL, APIKey |-> key, PrintJSON |-> FALSE, Query |-> "",
     Parameters |-> <<>>, Verbose |-> FALSE, Debug |-> FALSE,
     Download |-> FALSE, RawOutput |-> FALSE]

RECURSIVE Join(_, _)
Join(elems, sep) ==
    IF Len(elems) = 0 THEN <<>>
    ELSE IF Len(elems) = 1 THEN <<elems[1]>>
    ELSE <<elems[1], sep>> \o Join(Tail(elems), sep)

FormatURLIgnoringQuery(cl, path) ==
    <<cl.BaseURL, "/", path>>
        \o (IF Len(cl.Parameters) # 0
            THEN <<"?">> \o Join(cl.Parameters, "&")
            ELSE <<>>)

FormatURL(cl, path) ==
    IF cl.Query # ""
    THEN <<cl.BaseURL, "/", path, "/", cl.Query>>
    ELSE <<cl.BaseURL, "/", path>>
            \o (IF Len(cl.Parameters) # 0
                THEN <<"?">> \o Join(cl.Parameters, "&")
                ELSE <<>>)

Range(s) == {s[i] : i \in 1..Len(s)}

----------------------------------------------------------------------------
(* The flag set of fromArgs and the flag package's parser *)

StringFlag(v) == [var |-> v, kind |-> "string"]
IntFlag(v) == [var |-> v, kind |-> "int"]
BoolFlag(v) == [var |-> v, kind |-> "bool"]

\* name of a flag |-> the variable it sets
FlagDefs ==
    ("search" :> StringFlag("query")) @@ ("s" :> StringFlag("query")) @@
    ("output" :> StringFlag("output")) @@ ("o" :> StringFlag("output")) @@
    ("sort-dir" :> StringFlag("sortDir")) @@ ("dir" :> StringFlag("sortDir")) @@
    ("sort-attr" :> StringFlag("sortAttr")) @@ ("a" :> StringFlag("sortAttr")) @@
    ("per-page" :> IntFlag("perPage")) @@ ("pp" :> IntFlag("perPage")) @@
    ("page" :> IntFlag("page")) @@ ("p" :> IntFlag("page")) @@
    ("tag" :> StringFlag("tag")) @@ ("t" :> StringFlag("tag")) @@
    ("verbose" :> BoolFlag("verbose")) @@ ("v" :> BoolFlag("verbose")) @@
    ("debug" :> BoolFlag("debug")) @@
    ("d" :> BoolFlag("download")) @@
    ("raw" :> BoolFlag("raw")) @@ ("r" :> BoolFlag("raw"))

\* values of the flag variables before parsing
FlagDefaults ==
    [query |-> "", output |-> "text", sortDir |-> "", sortAttr |-> "",
     perPage |-> DefaultPerPage, page |-> DefaultPage, tag |-> "",
     verbose |-> FALSE, debug |-> FALSE, download |-> FALSE, raw |-> FALSE]

\* the integers whose decimal text occurs on a command line
IntValues ==
    ((0 - MaxNeg)..MaxInt) \cup ((DefaultPerPage - 1)..(DefaultPerPage + 1))

\* strconv.ParseInt on the decimal texts of the universe
IntOf == [s \in {ToString(n) : n \in IntValues} |->
            CHOOSE n \in IntValues : ToString(n) = s]
IsInt(s) == s \in DOMAIN IntOf
Atoi(s) == IntOf[s]

\* the names that occur after a leading "-" or "--" in the universe:
\* the defined flags, undefined ones, and the digits of negative numbers
DashNames ==
    DOMAIN FlagDefs \cup {"h", "help", "bogus"}
        \cup {ToString(0 - n) : n \in {m \in IntValues : m < 0}}

\* a token that starts with "-" or "--" |-> the name that follows
FlagNameOf ==
    [t \in {"-" \o n : n \in DashNames} \cup {"--" \o n : n \in DashNames} |->
        CHOOSE n \in DashNames : t \in {"-" \o n, "--" \o n}]
IsFlagToken(s) == s \in DOMAIN FlagNameOf
FlagName(s) == FlagNameOf[s]

\* FlagSet.Parse / parseOne: flags are consumed until the first non-flag
\* token; boolean flags take no value, the others take the next token.
RECURSIVE ParseFlags(_, _)
ParseFlags(toks, f) ==
    IF Len(toks) = 0 THEN [status |-> "ok", f |-> f]
    ELSE IF ~IsFlagToken(toks[1]) THEN [status |-> "ok", f |-> f]
    ELSE LET name == FlagName(toks[1]) IN
         IF name \notin DOMAIN FlagDefs
         THEN [status |-> IF name \in {"h", "help"} THEN "help" ELSE "error",
               f |-> f]
         ELSE LET d == FlagDefs[name] IN
              IF d.kind = "bool"
              THEN ParseFlags(Tail(toks), [f EXCEPT ![d.var] = TRUE])
              ELSE IF Len(toks) < 2
              THEN [status |-> "error", f |-> f]
              ELSE IF d.kind = "int"
              THEN IF IsInt(toks[2])
                   THEN ParseFlags(SubSeq(toks, 3, Len(toks)),
                                   [f EXCEPT ![d.var] = Atoi(toks[2])])
                   ELSE [status |-> "error", f |-> f]
              ELSE ParseFlags(SubSeq(toks, 3, Len(toks)),
                              [f EXCEPT ![d.var] = toks[2]])

----------------------------------------------------------------------------
(* Argument normalisation *)

Append2Fresh(cl, p) == [cl EXCEPT !.Parameters = <<p>>]

Append2(cl, p) == [cl EXCEPT !.Parameters = Append(@, p)]

parseSortParamsAnyDir(cl, sortDir, sortAttr) ==
    LET c1 == IF sortDir # "" THEN Append2(cl, "sort_dir=" \o sortDir) ELSE cl
    IN  IF sortAttr # "" THEN Append2(c1, "sort_attr=" \o sortAttr) ELSE c1

parseSortParams(cl, sortDir, sortAttr) ==
    LET c1 == CASE sortDir = "asc" -> Append2(cl, "sort_dir=asc")
                [] sortDir = "desc" -> Append2(cl, "sort_dir=desc")
                [] OTHER -> cl
    IN  IF sortAttr # "" THEN Append2(c1, "sort_attr=" \o sortAttr) ELSE c1

parsePageParamsNoDefaultCheck(cl, perPage, page) ==
    LET c1 == IF perPage > 0
              THEN Append2(cl, "per_page=" \o ToString(perPage)) ELSE cl
    IN  IF page > 1 THEN Append2(c1, "page=" \o ToString(page)) ELSE c1

parsePageParams(cl, perPage, page) ==
    LET c1 == IF perPage # 20 /\ perPage > 0
              THEN Append2(cl, "per_page=" \o ToString(perPage)) ELSE cl
    IN  IF page > 1 THEN Append2(c1, "page=" \o ToString(page)) ELSE c1

parseTag(cl, tag) ==
    IF tag # "" THEN Append2(cl, "tag=" \o tag) ELSE cl

\* what fromArgs leaves behind: the client, the error it returns, and the
\* exit status when the flag set (flag.ExitOnError) ends the process
\* instead of returning (-1: fromArgs returned)
Returned(cl, e) == [c |-> cl, err |-> e, exit |-> -1]
Exited(cl, code) == [c |-> cl, err |-> "", exit |-> code]

\* case showOnDatePath, showsDayOfYearPath, searchPath: the query is required
requireQueryNever(cl, msg) == Returned(cl, "")

requireQuery(cl, msg) ==
    IF cl.Query = "" THEN Returned(cl, msg) ELSE Returned(cl, "")

\* case randomShowPath: doesn't take a parameter, so drop if user added one
dropQueryKeeping(cl) == Returned(cl, "")

dropQuery(cl) == Returned([cl EXCEPT !.Query = ""], "")

\* case yearsPath: let's always include this
includeShowCountsAfterPaging(cl, f) ==
    Returned(Append2(parsePageParams(cl, f.perPage, f.page),
                     "include_show_counts=true"), "")

includeShowCounts(cl, f) ==
    Returned(Append2(cl, "include_show_counts=true"), "")

\* case erasPath, toursPath, tagsPath: do nothing
doNothingButPaging(cl, f) ==
    Returned(parseSortParams(parsePageParams(cl, f.perPage, f.page),
                             f.sortDir, f.sortAttr), "")

doNothing(cl, f) == Returned(cl, "")

fromArgs(cl, a) ==
    LET p == ParseFlags(Tail(a), FlagDefaults) IN
    IF p.status = "help" THEN Exited(cl, 0)
    ELSE IF p.status = "error" THEN Exited(cl, 2)
    ELSE
    LET f == p.f
        c1 == [cl EXCEPT !.Query = f.query,
                         !.PrintJSON = (f.output = "json"),
                         !.Verbose = f.verbose,
                         !.Debug = f.debug,
                         !.Download = f.download,
                         !.RawOutput = f.raw]
        path == a[1]
    IN  CASE path \in {showsPath, tracksPath} ->
                Returned(parseSortParams(
                             parsePageParams(parseTag(c1, f.tag),
                                             f.perPage, f.page),
                             f.sortDir, f.sortAttr), "")
          [] path \in {songsPath, venuesPath} ->
                Returned(parseSortParams(
                             parsePageParams(c1, f.perPage, f.page),
                             f.sortDir, f.sortAttr), "")
          [] path = yearsPath -> includeShowCounts(c1, f)
          [] path = showOnDatePath -> requireQuery(c1, "need a date")
          [] path = showsDayOfYearPath -> requireQuery(c1, "need a day")
          [] path = randomShowPath -> dropQuery(c1)
          [] path = searchPath -> requireQuery(c1, "need a search term")
          [] path \in {erasPath, toursPath, tagsPath} -> doNothing(c1, f)
          [] OTHER -> Returned(c1, "endpointList")

----------------------------------------------------------------------------
(* Command lines *)

Opt(flag, vals) == {<<>>} \cup {<<flag, v>> : v \in vals}
Switch(flag) == {<<>>, <<flag>>}

Queries == {"", "1994-10-31"}
Outputs == {"json", "xml"}
SortDirs == {"asc", "desc", "ASC"}

\* every combination of the list-related and output-related flags
ListTails ==
    {s \o o \o d \o a \o pp \o p \o t \o v :
        s \in Opt("-s", Queries \ {""}), o \in Opt("-o", Outputs),
        d \in Opt("-dir", SortDirs), a \in Opt("-a", {"date"}),
        pp \in Opt("-pp", {ToString(n) : n \in IntValues}),
        p \in Opt("-p", {ToString(n) : n \in (0 - MaxNeg)..MaxInt}),
        t \in Opt("-t", {"sbd"}), v \in Switch("-v")}

\* every combination of the flags that steer run
RunTails ==
    {s \o o \o pp \o d \o r \o g :
        s \in Opt("-s", Queries), o \in Opt("-o", Outputs),
        pp \in Opt("-pp", {ToString(MaxInt)}), d \in Switch("-d"),
        r \in Switch("-r"), g \in Switch("--debug")}

\* the other spellings of the flags, and command lines the flag set rejects
OtherTails ==
    {<<"--search", "1994-10-31">>, <<"--output", "text">>,
     <<"--sort-dir", "desc">>, <<"-sort-dir", "phish">>,
     <<"--sort-attr", "date">>, <<"--per-page", ToString(MaxInt)>>,
     <<"--page", ToString(MaxInt)>>, <<"--tag", "sbd">>, <<"--verbose">>,
     <<"--raw">>, <<"-d", "asc">>, <<"-d", "desc">>,
     <<"asc", "-pp", ToString(MaxInt)>>,
     <<"-bogus">>, <<"-h">>, <<"--help">>, <<"-pp", "abc">>, <<"-s">>,
     <<ToString(0 - MaxNeg)>>}

Commands == Endpoints \cup {"phish"}

----------------------------------------------------------------------------
(* Run *)

\* strings.ToLower on the commands of the universe
ToLower(s) ==
    CASE s = "Help" -> "help"
      [] s = "Endpoints" -> "endpoints"
      [] OTHER -> s

missingKeyNever(key) == FALSE

missingKey(key) == key = ""

\* the wire Show of n tracks that the server holds; a song may be played
\* twice in a show, so slugs repeat
SlugAt(k) == IF k % 2 = 1 THEN "possum" ELSE "reba"

ServerVenue ==
    [Name |-> "J.J. McCabe's", Location |-> "Boulder, CO", ShowsCount |-> 2,
     ShowDates |-> <<"1990-04-05", "1990-04-06">>]

ServerTrack(k) ==
    [ID |-> 6692 + k, ShowDate |-> "1990-04-05",
     VenueName |-> ServerVenue.Name, VenueLocation |-> ServerVenue.Location,
     Title |-> SlugAt(k), SetName |-> "Set 1", Slug |-> SlugAt(k),
     Mp3 |-> "mp3", Duration |-> 368618, Tags |-> <<>>]

ServerShow(n) ==
    [ID |-> 696, Date |-> "1990-04-05", Duration |-> 9601071, Sbd |-> FALSE,
     Remastered |-> FALSE, Tags |-> <<>>, Venue |-> ServerVenue,
     VenueName |-> ServerVenue.Name, Location |-> ServerVenue.Location,
     Tracks |-> [k \in 1..n |-> ServerTrack(k)]]

Resting ==
    /\ url = <<>>
    /\ requests = <<>>
    /\ nTracks = 0
    /\ tasks = <<>>
    /\ files = <<>>
    /\ printed = <<>>
    /\ statusLine = 0
    /\ out = <<>>
    /\ pipeline = ""
    /\ answer = ""
    /\ tips = 0
    /\ exitCode = -1
    /\ parsed = FALSE
    /\ err = ""
    /\ runErr = ""

Init ==
    /\ args \in {<<>>, <<"help">>, <<"Help">>, <<"e">>, <<"Endpoints">>}
                    \cup {<<e>> \o t : e \in Commands,
                                       t \in RunTails \cup OtherTails}
    /\ apiKey \in {"", "dummy"}
    /\ data = ServerShow(MaxTracks)
    /\ dirs = {}
    /\ c = NewClient("")
    /\ pc = "start"
    /\ Resting

Exit(code) ==
    /\ pc' = "done"
    /\ exitCode' = code

\* Run up to the call of c.run
RunBegin ==
    /\ pc = "start"
    /\ IF Len(args) < 1
       THEN Exit(1) /\ UNCHANGED <<c, parsed, err>>
       ELSE IF ToLower(args[1]) \in {"help", "h", "-help", "-h", "--help",
                                     "endpoints", "e", "-endpoints", "-e",
                                     "--endpoints"}
       THEN Exit(0) /\ UNCHANGED <<c, parsed, err>>
       ELSE IF missingKey(apiKey)
       THEN Exit(1) /\ UNCHANGED <<c, parsed, err>>
       ELSE LET r == fromArgs(NewClient(apiKey), args) IN
            /\ parsed' = TRUE
            /\ c' = r.c
            /\ err' = r.err
            /\ IF r.exit # -1 THEN Exit(r.exit)
               ELSE IF r.err # "" THEN Exit(1)
               ELSE pc' = "run" /\ UNCHANGED exitCode
    /\ UNCHANGED <<args, apiKey, runErr, requests, url, nTracks, tasks, files,
                   data, printed, statusLine, out,
                   pipeline, dirs, answer, tips>>

\* the switch of run: which getter serves (path, identifier present)
DispatchIgnoringQuery(cl, path) ==
    CASE path = erasPath -> "getEras"
      [] path = yearsPath -> "getYears"
      [] path = songsPath -> "getSongs"
      [] path = toursPath -> "getTours"
      [] path = venuesPath -> "getVenues"
      [] path = showsPath -> "getShows"
      [] path = showOnDatePath -> "getShow"
      [] path = showsDayOfYearPath -> "getShows"
      [] path = randomShowPath -> "getShow"
      [] path = tracksPath -> "getTracks"
      [] path = searchPath -> "getSearch"
      [] path = tagsPath -> "getTags"
      [] OTHER -> "none"

Dispatch(cl, path) ==
    CASE path = erasPath /\ cl.Query # "" -> "getEra"
      [] path = erasPath /\ cl.Query = "" -> "getEras"
      [] path = yearsPath /\ cl.Query # "" -> "getYear"
      [] path = yearsPath /\ cl.Query = "" -> "getYears"
      [] path = songsPath /\ cl.Query # "" -> "getSong"
      [] path = songsPath /\ cl.Query = "" -> "getSongs"
      [] path = toursPath /\ cl.Query # "" -> "getTour"
      [] path = toursPath /\ cl.Query = "" -> "getTours"
      [] path = venuesPath /\ cl.Query # "" -> "getVenue"
      [] path = venuesPath /\ cl.Query = "" -> "getVenues"
      [] path = showsPath /\ cl.Query # "" -> "getShow"
      [] path = showsPath /\ cl.Query = "" -> "getShows"
      [] path = showOnDatePath -> "getShow"
      [] path = showsDayOfYearPath -> "getShows"
      [] path = randomShowPath -> "getShow"
      [] path = tracksPath /\ cl.Query # "" -> "getTrack"
      [] path = tracksPath /\ cl.Query = "" -> "getTracks"
      [] path = searchPath -> "getSearch"
      [] path = tagsPath /\ cl.Query # "" -> "getTag"
      [] path = tagsPath /\ cl.Query = "" -> "getTags"
      [] OTHER -> "none"

\* what the server and the network can answer to the one main request
Responses == {"transport error", "404 Not Found", "500 Internal Server Error",
              "undecodable body", "ok"}

Fail(e) ==
    /\ runErr' = e
    /\ Exit(1)

\* run hands the request to getAndPrintRaw when the raw flag is set
useRawUnlessDownload(cl) == cl.RawOutput /\ ~cl.Download

useRaw(cl) == cl.RawOutput

\* os.Mkdir: an error when the name exists already or the file system
\* does not allow the creation
MkdirAll(ds, name, allowed) ==
    [err |-> "", dirs |-> ds \cup {name}]

Mkdir(ds, name, allowed) ==
    IF name \in ds \/ ~allowed
    THEN [err |-> "unable to create directory", dirs |-> ds]
    ELSE [err |-> "", dirs |-> ds \cup {name}]

\* c.run from FormatURL to the decoded response: getAndPrintRaw, or Get
\* inside the getter that Dispatch selects; getShow creates the directory
\* and getTrack submits its one download, of the track ServerTrack(1)
Fetch ==
    /\ pc = "run"
    /\ \E resp \in Responses, allowed \in BOOLEAN :
        LET u == FormatURL(c, args[1])
            getter == Dispatch(c, args[1])
            n == Len(data.Tracks)
            made == Mkdir(dirs, data.Date, allowed)
        IN  /\ url' = u
            /\ requests' = Append(requests, u)
            /\ answer' = resp
            /\ tips' = IF resp = "404 Not Found" THEN tips + 1 ELSE tips
            /\ IF useRaw(c)
               THEN /\ pipeline' = "getAndPrintRaw"
                    /\ IF resp \in {"ok", "undecodable body"}
                       THEN /\ pc' = "wait"
                            /\ printed' = Append(printed, "raw json")
                            /\ UNCHANGED <<exitCode, runErr, nTracks, tasks,
                                           files, dirs>>
                       ELSE /\ Fail(resp)
                            /\ UNCHANGED <<nTracks, tasks, files, printed,
                                           dirs>>
               ELSE
               /\ pipeline' = getter
               /\ printed' = IF c.Debug THEN Append(printed, "url")
                             ELSE printed
               /\ IF resp # "ok"
                  THEN Fail(resp) /\ UNCHANGED <<nTracks, tasks, files, dirs>>
                  ELSE IF c.Download /\ getter = "getShow"
                  THEN /\ dirs' = made.dirs
                       /\ IF made.err = ""
                          THEN /\ nTracks' = n
                               /\ pc' = IF n = 0 THEN "render" ELSE "spawn"
                               /\ UNCHANGED <<exitCode, runErr, tasks, files>>
                          ELSE /\ Fail(made.err)
                               /\ UNCHANGED <<nTracks, tasks, files>>
                  ELSE IF c.Download /\ getter = "getTrack"
                  THEN /\ tasks' = Append(tasks, "running")
                       /\ files' = Append(files,
                                     [dir |-> ".",
                                      name |-> ServerTrack(1).Slug \o ".mp3"])
                       /\ pc' = "render"
                       /\ UNCHANGED <<exitCode, runErr, nTracks, dirs>>
                  ELSE /\ pc' = "render"
                       /\ UNCHANGED <<exitCode, runErr, nTracks, tasks,
                                      files, dirs>>
    /\ UNCHANGED <<args, apiKey, c, parsed, err, data, statusLine, out>>

\* the functions of the group that have been started and have not returned;
\* "printing" is a function between the two Printf of PrintProgress
RunningNeverReleased == 1..Len(tasks)

Running == {i \in 1..Len(tasks) : tasks[i] \in {"running", "printing"}}

\* the name of the file of the track numbered i: Sprintf("%d-%s.mp3")
fileNameWithoutNumber(i, t) == t.Slug \o ".mp3"

fileName(i, t) == ToString(i) \o "-" \o t.Slug \o ".mp3"

\* one iteration of the loop of getShow: ErrGroup.Go blocks while
\* GroupLimit functions are running; the function keeps the i and t of its
\* iteration
SpawnUnlimited ==
    /\ pc = "spawn"
    /\ Len(tasks) < nTracks
    /\ LET i == Len(tasks) + 1
           t == data.Tracks[Len(tasks) + 1]
       IN  files' = Append(files,
                      [dir |-> data.Date, name |-> fileName(i, t)])
    /\ tasks' = Append(tasks, "running")
    /\ pc' = IF Len(tasks) + 1 = nTracks THEN "render" ELSE "spawn"
    /\ UNCHANGED <<args, apiKey, c, exitCode, parsed, err, runErr, requests,
                   url, nTracks, data, printed, statusLine, out,
                   pipeline, dirs, answer, tips>>

Spawn ==
    /\ pc = "spawn"
    /\ Len(tasks) < nTracks
    /\ Cardinality(Running) < GroupLimit
    /\ LET i == Len(tasks) + 1
           t == data.Tracks[Len(tasks) + 1]
       IN  files' = Append(files,
                      [dir |-> data.Date, name |-> fileName(i, t)])
    /\ tasks' = Append(tasks, "running")
    /\ pc' = IF Len(tasks) + 1 = nTracks THEN "render" ELSE "spawn"
    /\ UNCHANGED <<args, apiKey, c, exitCode, parsed, err, runErr, requests,
                   url, nTracks, data, printed, statusLine, out,
                   pipeline, dirs, answer, tips>>

\* WriteCounter.Write inside io.Copy: PrintProgress blanks the status line
\* with a first Printf ...
ProgressBlank ==
    /\ pc # "done"
    /\ \E i \in 1..Len(tasks) :
        /\ tasks[i] = "running"
        /\ tasks' = [tasks EXCEPT ![i] = "printing"]
        /\ statusLine' = 0
    /\ UNCHANGED <<args, apiKey, c, pc, exitCode, parsed, err, runErr,
                   requests, url, nTracks, files, data, printed, out,
                   pipeline, dirs, answer, tips>>

\* ... and writes "downloaded <size> of <name>" with a second one
ProgressStatus ==
    /\ pc # "done"
    /\ \E i \in 1..Len(tasks) :
        /\ tasks[i] = "printing"
        /\ tasks' = [tasks EXCEPT ![i] = "running"]
        /\ statusLine' = i
    /\ UNCHANGED <<args, apiKey, c, pc, exitCode, parsed, err, runErr,
                   requests, url, nTracks, files, data, printed, out,
                   pipeline, dirs, answer, tips>>

\* DownloadTrack returns, with or without an error
TaskFinishCancelling ==
    /\ pc # "done"
    /\ \E i \in 1..Len(tasks), r \in {"ok", "failed"} :
        /\ tasks[i] = "running"
        /\ tasks' = IF r = "ok" THEN [tasks EXCEPT ![i] = r]
                     ELSE [j \in 1..Len(tasks) |->
                            IF j \in Running THEN "failed" ELSE tasks[j]]
    /\ UNCHANGED <<args, apiKey, c, pc, exitCode, parsed, err, runErr,
                   requests, url, nTracks, files, data, printed, statusLine,
                   out, pipeline, dirs, answer, tips>>

TaskFinish ==
    /\ pc # "done"
    /\ \E i \in 1..Len(tasks), r \in {"ok", "failed"} :
        /\ tasks[i] = "running"
        /\ tasks' = [tasks EXCEPT ![i] = r]
    /\ UNCHANGED <<args, apiKey, c, pc, exitCode, parsed, err, runErr,
                   requests, url, nTracks, files, data, printed, statusLine,
                   out, pipeline, dirs, answer, tips>>

\* PrintResults at the end of c.run
Render ==
    /\ pc = "render"
    /\ \E written \in BOOLEAN :
        IF written
        THEN /\ pc' = "wait"
             /\ printed' = Append(printed,
                                  IF c.PrintJSON THEN "json" ELSE "text")
             /\ UNCHANGED <<exitCode, runErr>>
        ELSE Fail("write error") /\ UNCHANGED printed
    /\ UNCHANGED <<args, apiKey, c, parsed, err, requests, url, nTracks,
                   tasks, files, data, statusLine, out,
                   pipeline, dirs, answer, tips>>

\* c.ErrGroup.Wait and the return of Run
WaitIgnoringFailures ==
    /\ pc = "wait"
    /\ Running = {}
    /\ Exit(0)
    /\ UNCHANGED <<args, apiKey, c, parsed, err, runErr, requests, url,
                   nTracks, tasks, files, data, printed, statusLine,
                   out, pipeline, dirs, answer, tips>>

Wait ==
    /\ pc = "wait"
    /\ Running = {}
    /\ Exit(IF \E i \in 1..Len(tasks) : tasks[i] = "failed" THEN 1 ELSE 0)
    /\ UNCHANGED <<args, apiKey, c, parsed, err, runErr, requests, url,
                   nTracks, tasks, files, data, printed, statusLine,
                   out, pipeline, dirs, answer, tips>>

Next ==
    \/ RunBegin \/ Fetch \/ Spawn \/ ProgressBlank \/ ProgressStatus
    \/ TaskFinish \/ Render \/ Wait

Spec == Init /\ [][Next]_vars

\* Run on the command lines that download, for a show of many tracks
DownloadCommands ==
    {<<showsPath, "-s", "1990-04-05", "-d">>, <<randomShowPath, "-d">>,
     <<tracksPath, "-s", "6693", "-d">>}

InitDownload ==
    /\ args \in DownloadCommands
    /\ apiKey = "dummy"
    /\ data \in {ServerShow(n) : n \in 0..MaxDownloads}
    /\ dirs \in {{}, {"1990-04-05"}}
    /\ c = NewClient("")
    /\ pc = "start"
    /\ Resting

SpecDownload == InitDownload /\ [][Next]_vars

\* the scheduler lets every goroutine that can take a step take it, and
\* every download comes to its end, however often it reports its progress
Fairness ==
    /\ WF_vars(RunBegin)
    /\ WF_vars(Fetch)
    /\ WF_vars(Spawn)
    /\ WF_vars(ProgressStatus)
    /\ SF_vars(TaskFinish)
    /\ WF_vars(Render)
    /\ WF_vars(Wait)

InitShowDownload ==
    /\ args = <<showsPath, "-s", "1990-04-05", "-d">>
    /\ apiKey = "dummy"
    /\ data \in {ServerShow(n) : n \in 0..MaxDownloads}
    /\ dirs = {}
    /\ c = NewClient("")
    /\ pc = "start"
    /\ Resting

SpecFair == InitShowDownload /\ [][Next]_vars /\ Fairness

----------------------------------------------------------------------------
(* fromArgs on a fresh client *)

InitArgs ==
    /\ args \in {<<e>> \o t : e \in Commands, t \in ListTails \cup OtherTails}
    /\ apiKey = "dummy"
    /\ data = ServerShow(0)
    /\ dirs = {}
    /\ c = NewClient("dummy")
    /\ pc = "args"
    /\ Resting

CallFromArgs ==
    /\ pc = "args"
    /\ LET r == fromArgs(c, args) IN
        /\ parsed' = TRUE
        /\ c' = r.c
        /\ err' = r.err
        /\ exitCode' = r.exit
        /\ pc' = IF r.exit # -1 THEN "done" ELSE "called"
    /\ UNCHANGED <<args, apiKey, runErr, requests, url, nTracks, tasks, files,
                   data, printed, statusLine, out,
                   pipeline, dirs, answer, tips>>

NextArgs == CallFromArgs

SpecArgs == InitArgs /\ [][NextArgs]_vars

----------------------------------------------------------------------------
(* fromArgs again and again on one client, as the tests call it *)

AgainCommands ==
    {<<showsPath, "-t", "sbd">>, <<showsPath, "-pp", "2", "-p", "2">>,
     <<songsPath, "-dir", "asc", "-a", "date">>, <<yearsPath>>,
     <<erasPath, "-t", "sbd">>, <<randomShowPath, "-s", "1994-10-31">>,
     <<searchPath>>, <<"phish">>, <<tracksPath, "-bogus">>}

InitAgain ==
    /\ args \in AgainCommands
    /\ apiKey = "dummy"
    /\ data = ServerShow(0)
    /\ dirs = {}
    /\ c = NewClient("dummy")
    /\ pc = "args"
    /\ Resting

\* the caller takes the next command line for the client it has used
NextCommand ==
    /\ pc = "called"
    /\ Len(c.Parameters) <= MaxParams + 1
    /\ args' \in AgainCommands
    /\ pc' = "args"
    /\ UNCHANGED <<apiKey, c, exitCode, parsed, err, runErr, requests, url,
                   nTracks, tasks, files, data, printed, statusLine, out,
                   pipeline, dirs, answer, tips>>

NextAgain == CallFromArgs \/ NextCommand

SpecAgain == InitAgain /\ [][NextAgain]_vars

----------------------------------------------------------------------------
(* FormatURL on any client *)

ParamPool == {"per_page=3", "page=1", "sort_attr=date", "sort_dir=desc"}

ParamLists == UNION {[1..n -> ParamPool] : n \in 0..MaxParams}

InitURL ==
    /\ args \in {<<e>> : e \in Endpoints}
    /\ apiKey = "dummy"
    /\ data = ServerShow(0)
    /\ dirs = {}
    /\ c \in {[NewClient("dummy") EXCEPT !.Query = q, !.Parameters = ps] :
                q \in {"", "harry-hood"}, ps \in ParamLists}
    /\ pc = "url"
    /\ Resting

CallFormatURL ==
    /\ pc = "url"
    /\ url' = FormatURL(c, args[1])
    /\ pc' = "formatted"
    /\ UNCHANGED <<args, apiKey, c, exitCode, parsed, err, runErr, requests,
                   nTracks, tasks, files, data, printed, statusLine,
                   out, pipeline, dirs, answer, tips>>

NextURL == CallFormatURL

SpecURL == InitURL /\ [][NextURL]_vars

----------------------------------------------------------------------------
(* Durations *)

msInSecond == 1000

\* time.Time.Hour, Minute and Second of time.Unix(secs, nsec).UTC():
\* the clock reading within the day, Hour in 0..23
Hour(secs) == (secs % 86400) \div 3600
Minute(secs) == (secs % 3600) \div 60
Second(secs) == secs % 60

convertMillisecondToConcertDuration(ms) ==
    LET t == ms \div msInSecond IN
    IF Hour(t) # 0
    THEN ToString(Hour(t)) \o "h " \o ToString(Minute(t)) \o "m"
    ELSE ToString(Minute(t)) \o "m " \o ToString(Second(t)) \o "s"

\* durations in milliseconds that the server may hold
Durations ==
    {h * 3600000 + m * 60000 + sec * 1000 + r :
        h \in 0..MaxHours, m \in {0, 1, 40, 59}, sec \in {0, 8, 59},
        r \in {0, 71, 999}}
    \cup {368618, 9601071}

InitDuration ==
    /\ args = <<>>
    /\ apiKey = "dummy"
    /\ data \in {[ServerShow(0) EXCEPT !.Duration = ms] : ms \in Durations}
    /\ dirs = {}
    /\ c = NewClient("dummy")
    /\ pc = "duration"
    /\ Resting

CallConvertDuration ==
    /\ pc = "duration"
    /\ out' = convertMillisecondToConcertDuration(data.Duration)
    /\ pc' = "converted"
    /\ UNCHANGED <<args, apiKey, c, exitCode, parsed, err, runErr, requests,
                   url, nTracks, tasks, files, data, printed, statusLine,
                   pipeline, dirs, answer, tips>>

NextDuration == CallConvertDuration

SpecDuration == InitDuration /\ [][NextDuration]_vars

----------------------------------------------------------------------------
(* Transforms: wire model to display model *)

convertVenueToOutput(venue) ==
    [Name |-> venue.Name, Location |-> venue.Location,
     ShowsCount |-> venue.ShowsCount, ShowDates |-> venue.ShowDates]

convertTrackToOutput(track) ==
    [ID |-> track.ID, ShowDate |-> track.ShowDate,
     VenueName |-> track.VenueName, VenueLocation |-> track.VenueLocation,
     Title |-> track.Title,
     Duration |-> convertMillisecondToConcertDuration(track.Duration),
     SetName |-> track.SetName, Tags |-> track.Tags, Mp3 |-> track.Mp3]

convertTracksToOutputReversed(d) ==
    [TotalEntries |-> 0, TotalPages |-> 0, CurrentPage |-> 0,
     Tracks |-> [k \in 1..Len(d) |-> convertTrackToOutput(d[Len(d) + 1 - k])]]

convertTracksToOutput(d) ==
    [TotalEntries |-> 0, TotalPages |-> 0, CurrentPage |-> 0,
     Tracks |-> [k \in 1..Len(d) |-> convertTrackToOutput(d[k])]]

convertShowToOutput(show) ==
    [ID |-> show.ID, Date |-> show.Date,
     Duration |-> convertMillisecondToConcertDuration(show.Duration),
     Sbd |-> show.Sbd, Remastered |-> show.Remastered, Tags |-> show.Tags,
     Venue |-> convertVenueToOutput(show.Venue),
     VenueName |-> show.VenueName,
     VenueLocation |-> IF show.Location = "" THEN show.Venue.Location
                       ELSE show.Location,
     Tracks |-> convertTracksToOutput(show.Tracks).Tracks]

convertShowsToOutput(d) ==
    [TotalEntries |-> 0, TotalPages |-> 0, CurrentPage |-> 0,
     Shows |-> [k \in 1..Len(d) |-> convertShowToOutput(d[k])]]

convertSongToOutput(song) ==
    [ID |-> song.ID, Title |-> song.Title, Original |-> song.Original,
     Artist |-> song.Artist, TracksCount |-> song.TracksCount,
     Tracks |-> convertTracksToOutput(song.Tracks).Tracks]

\* the getters, from the decoded response to the display model
getYear(resp) == convertShowsToOutput(resp.Data)

getShows(resp) ==
    [convertShowsToOutput(resp.Data) EXCEPT
        !.TotalEntries = resp.TotalEntries, !.TotalPages = resp.TotalPages,
        !.CurrentPage = resp.Page]

getShow(resp) == convertShowToOutput(resp)

getVenues(resp) ==
    [TotalEntries |-> resp.TotalEntries, TotalPages |-> resp.TotalPages,
     CurrentPage |-> resp.Page,
     Venues |-> [k \in 1..Len(resp.Data) |->
                    convertVenueToOutput(resp.Data[k])]]

getSongs(resp) ==
    [TotalEntries |-> resp.TotalEntries, TotalPages |-> resp.TotalPages,
     CurrentPage |-> resp.Page,
     Songs |-> [k \in 1..Len(resp.Data) |->
                    convertSongToOutput(resp.Data[k])]]

getTracks(resp) ==
    [convertTracksToOutput(resp.Data) EXCEPT
        !.TotalEntries = resp.TotalEntries, !.TotalPages = resp.TotalPages,
        !.CurrentPage = resp.Page]

convertToursToOutput(tours) ==
    [Tours |-> [k \in 1..Len(tours) |->
                    [Name |-> tours[k].Name,
                     ShowsCount |-> tours[k].ShowsCount,
                     StartsOn |-> tours[k].StartsOn,
                     EndsOn |-> tours[k].EndsOn,
                     Shows |-> convertShowsToOutput(tours[k].Shows).Shows]]]

convertTagListItemToOutput(t) ==
    [Name |-> t.Name, Group |-> t.Group, Description |-> t.Description,
     ShowIds |-> t.ShowIds, TrackIds |-> t.TrackIds]

\* The display model of a search: ExactShow is the pointer, <<>> for nil
\* and <<show>> for a show; ShowTags is never filled in ("todo show tags").
convertSearchToSearchOutputWithoutVenues(s) ==
    [ExactShow |-> IF s.Data.ExactShow.ID # 0
                   THEN <<convertShowToOutput(s.Data.ExactShow)>> ELSE <<>>,
     OtherShows |-> convertShowsToOutput(s.Data.OtherShows).Shows,
     ShowTags |-> <<>>,
     Songs |-> [k \in 1..Len(s.Data.Songs) |->
                    convertSongToOutput(s.Data.Songs[k])],
     Tags |-> [k \in 1..Len(s.Data.Tags) |->
                    convertTagListItemToOutput(s.Data.Tags[k])],
     Tours |-> convertToursToOutput(s.Data.Tours).Tours,
     TrackTags |-> [k \in 1..Len(s.Data.TrackTags) |->
                    [ID |-> s.Data.TrackTags[k].ID,
                     TrackID |-> s.Data.TrackTags[k].TrackID,
                     TagID |-> s.Data.TrackTags[k].TagID,
                     Notes |-> s.Data.TrackTags[k].Notes,
                     Transcript |-> s.Data.TrackTags[k].Transcript]],
     Tracks |-> convertTracksToOutput(s.Data.Tracks).Tracks,
     Venues |-> <<>>]

convertSearchToSearchOutput(s) ==
    [ExactShow |-> IF s.Data.ExactShow.ID # 0
                   THEN <<convertShowToOutput(s.Data.ExactShow)>> ELSE <<>>,
     OtherShows |-> convertShowsToOutput(s.Data.OtherShows).Shows,
     ShowTags |-> <<>>,
     Songs |-> [k \in 1..Len(s.Data.Songs) |->
                    convertSongToOutput(s.Data.Songs[k])],
     Tags |-> [k \in 1..Len(s.Data.Tags) |->
                    convertTagListItemToOutput(s.Data.Tags[k])],
     Tours |-> convertToursToOutput(s.Data.Tours).Tours,
     TrackTags |-> [k \in 1..Len(s.Data.TrackTags) |->
                    [ID |-> s.Data.TrackTags[k].ID,
                     TrackID |-> s.Data.TrackTags[k].TrackID,
                     TagID |-> s.Data.TrackTags[k].TagID,
                     Notes |-> s.Data.TrackTags[k].Notes,
                     Transcript |-> s.Data.TrackTags[k].Transcript]],
     Tracks |-> convertTracksToOutput(s.Data.Tracks).Tracks,
     Venues |-> [k \in 1..Len(s.Data.Venues) |->
                    convertVenueToOutput(s.Data.Venues[k])]]

getSearch(resp) == convertSearchToSearchOutput(resp)

----------------------------------------------------------------------------
(* Renderers *)

\* What a renderer hands to its tabwriter is kept as the sequence of the
\* lines written, each with the cells that the tabs separate; k names the
\* statement that wrote the line.
Line(k, cells) == [k |-> k, cells |-> cells]
Blank == Line("blank", <<>>)

trueAsYes(s) == IF s THEN "yes" ELSE "no"

RECURSIVE Repeat(_, _)
Repeat(str, count) ==
    IF count <= 0 THEN "" ELSE str \o Repeat(str, count - 1)

RECURSIVE JoinStrings(_, _)
JoinStrings(elems, sep) ==
    IF Len(elems) = 0 THEN ""
    ELSE IF Len(elems) = 1 THEN elems[1]
    ELSE elems[1] \o sep \o JoinStrings(Tail(elems), sep)

\* the notes of the tags in the modelled universe hold no line break, so
\* the two ReplaceAll leave them as they are
convertTagsToString(tags) ==
    JoinStrings([k \in 1..Len(tags) |->
                    IF tags[k].Notes # ""
                    THEN tags[k].Name \o ": " \o tags[k].Notes
                    ELSE tags[k].Name], ", ")

Footer(o) ==
    Line("footer", <<"Total Entries: " \o ToString(o.TotalEntries),
                     "Total Pages: " \o ToString(o.TotalPages),
                     "Result Page: " \o ToString(o.CurrentPage)>>)

ShowHeaderVerbose ==
    Line("header", <<"ID:", "Date:", "Venue:", "Location:", "Duration:",
                     "Soundboard:", "Remastered:">>)

ShowRowVerbose(show) ==
    Line("row", <<ToString(show.ID), show.Date, show.VenueName,
                  show.VenueLocation, show.Duration, trueAsYes(show.Sbd),
                  trueAsYes(show.Remastered)>>)

ShowsOutputPrettyPrint(s, verbose) ==
    IF verbose
    THEN <<ShowHeaderVerbose>>
            \o [k \in 1..Len(s.Shows) |-> ShowRowVerbose(s.Shows[k])]
            \o (IF s.TotalEntries # 0 THEN <<Blank, Footer(s)>> ELSE <<>>)
    ELSE <<Line("header", <<"Date:", "Venue:", "Location:", "Duration:">>)>>
            \o [k \in 1..Len(s.Shows) |->
                    Line("row", <<s.Shows[k].Date, s.Shows[k].VenueName,
                                  s.Shows[k].VenueLocation,
                                  s.Shows[k].Duration>>)]
            \o (IF s.TotalEntries # 0 THEN <<Blank, Footer(s)>> ELSE <<>>)

SongsOutputPrettyPrint(s, verbose) ==
    <<Line("header", <<"Title:", "Original Artist:", "TracksCount:">>)>>
        \o [k \in 1..Len(s.Songs) |->
                Line("row", <<s.Songs[k].Title,
                              IF ~s.Songs[k].Original THEN s.Songs[k].Artist
                              ELSE "Phish",
                              ToString(s.Songs[k].TracksCount)>>)]
        \o <<Blank>>
        \o (IF s.TotalEntries # 0 THEN <<Footer(s)>> ELSE <<>>)

VenuesOutputPrettyPrint(v, verbose) ==
    <<Line("header", <<"Venue:", "Location:", "Show Count:">>)>>
        \o [k \in 1..Len(v.Venues) |->
                Line("row", <<v.Venues[k].Name, v.Venues[k].Location,
                              ToString(v.Venues[k].ShowsCount)>>)]
        \o <<Blank>>
        \o (IF v.CurrentPage # 0 THEN <<Footer(v)>> ELSE <<>>)

TracksOutputPrettyPrint(t, verbose) ==
    <<Line("header", <<"ID:", "Date:", "Venue:", "Location:", "Title:",
                       "Mp3:">>)>>
        \o [k \in 1..Len(t.Tracks) |->
                Line("row", <<ToString(t.Tracks[k].ID), t.Tracks[k].ShowDate,
                              t.Tracks[k].VenueName,
                              t.Tracks[k].VenueLocation, t.Tracks[k].Title,
                              t.Tracks[k].Mp3>>)]
        \o <<Blank>>
        \o (IF t.TotalEntries # 0 THEN <<Footer(t)>> ELSE <<>>)

RECURSIVE longestTitleLen(_)
longestTitleLen(tracks) ==
    IF Len(tracks) = 0 THEN 0
    ELSE LET rest == longestTitleLen(Tail(tracks)) IN
         IF Len(tracks[1].Title) > rest THEN Len(tracks[1].Title) ELSE rest

\* the body of the loop over s.Tracks for the index i, counted from 0
TrackLines(tracks, i) ==
    LET t == tracks[i + 1]
        toAdd == longestTitleLen(tracks) - Len(t.Title)
    IN  (IF i > 1 /\ t.SetName # tracks[i].SetName
         THEN <<Blank, Line("set", <<tracks[i + 1].SetName>>)>>
         ELSE <<>>)
        \o <<Line("track", <<t.Title \o Repeat(" ", toAdd), t.Duration>>)>>

\* the first n iterations of the loop, after the heading of the first set
RECURSIVE TrackListing(_, _)
TrackListing(tracks, n) ==
    IF n = 0 THEN <<Line("set", <<tracks[1].SetName>>)>>
    ELSE TrackListing(tracks, n - 1) \o TrackLines(tracks, n - 1)

RECURSIVE TrackInfo(_)
TrackInfo(tracks) ==
    IF Len(tracks) = 0 THEN <<>>
    ELSE LET t == tracks[1]
             tagInfo == convertTagsToString(t.Tags)
         IN  <<Line("info", <<t.Title>>), Line("info", <<t.Mp3>>)>>
                \o (IF tagInfo # "" THEN <<Line("info", <<tagInfo>>)>>
                    ELSE <<>>)
                \o <<Blank>>
                \o TrackInfo(Tail(tracks))

ShowOutputPrettyPrint(s, verbose) ==
    IF verbose
    THEN <<ShowHeaderVerbose, ShowRowVerbose(s), Blank>>
            \o (IF Len(s.Tags) # 0
                THEN <<Line("tags", <<"Show Tags:">>),
                       Line("tags", <<convertTagsToString(s.Tags)>>), Blank>>
                ELSE <<>>)
            \o (IF Len(s.Tracks) = 0 THEN <<>>
                ELSE TrackListing(s.Tracks, Len(s.Tracks))
                        \o <<Blank, Line("info", <<"Track Info:">>)>>
                        \o TrackInfo(s.Tracks))
    ELSE <<Line("header", <<"Date:", "Venue:", "Location:">>),
           Line("row", <<s.Date, s.VenueName, s.VenueLocation>>), Blank>>
            \o (IF Len(s.Tracks) = 0 THEN <<>>
                ELSE TrackListing(s.Tracks, Len(s.Tracks)))

TagsOutputPrettyPrint(t, verbose) ==
    <<Line("header", <<"Name:", "Description:", "Group:">>)>>
        \o [k \in 1..Len(t.Tags) |->
                Line("row", <<t.Tags[k].Name, t.Tags[k].Description,
                              t.Tags[k].Group>>)]

ToursOutputPrettyPrint(t, verbose) ==
    <<Line("header", <<"Name:", "Starts On:", "Ends On:", "Shows Count:">>)>>
        \o [k \in 1..Len(t.Tours) |->
                Line("row", <<t.Tours[k].Name, t.Tours[k].StartsOn,
                              t.Tours[k].EndsOn,
                              ToString(t.Tours[k].ShowsCount)>>)]

\* strings.ReplaceAll(notes, "&gt;", ">") on the notes the server may hold
ReplaceAllGt(notes) ==
    IF notes = "Tweezer &gt; Lizards" THEN "Tweezer > Lizards" ELSE notes

RECURSIVE TrackTagLines(_)
TrackTagLines(tags) ==
    IF Len(tags) = 0 THEN <<>>
    ELSE LET tag == tags[1] IN
         <<Line("header", <<"ID:", "TrackID:", "TagID:">>),
           Line("row", <<ToString(tag.ID), ToString(tag.TrackID),
                         ToString(tag.TagID)>>)>>
            \o (IF tag.Notes # ""
                THEN <<Blank, Line("notes", <<"Notes:">>),
                       Line("notes", <<ReplaceAllGt(tag.Notes)>>)>>
                ELSE <<>>)
            \o (IF tag.Transcript # ""
                THEN (IF tag.Notes # "" THEN <<Blank>> ELSE <<>>)
                        \o <<Line("transcript", <<"Transcript:">>),
                             Line("transcript", <<tag.Transcript>>)>>
                ELSE <<>>)
            \o <<Blank>>
            \o TrackTagLines(Tail(tags))

TrackTagsOutputPrettyPrint(t, verbose) == TrackTagLines(t.Tags)

\* a display model that holds nothing but the given list
Unpaged(field, items) ==
    [TotalEntries |-> 0, TotalPages |-> 0, CurrentPage |-> 0]
        @@ (field :> items)

\* the results flag of SearchOutput.PrettyPrint when it returns
searchHasResults(s) ==
    \/ s.ExactShow # <<>>
    \/ Len(s.OtherShows) # 0
    \/ Len(s.ShowTags) # 0
    \/ Len(s.Songs) # 0
    \/ Len(s.Tags) # 0
    \/ Len(s.Tours) # 0
    \/ Len(s.TrackTags) # 0
    \/ Len(s.Tracks) # 0
    \/ Len(s.Venues) # 0

\* one block of SearchOutput.PrettyPrint: the title and the empty line go
\* to the outer tabwriter, which hands a line of one cell to the writer at
\* its line break, so the three parts reach the writer in this order
Section(title, body) == <<Line("section", <<title>>)>> \o body \o <<Blank>>

SearchOutputPrettyPrint(s, verbose) ==
    (IF s.ExactShow # <<>>
     THEN Section("*** EXACT SHOW RESULTS ***",
                  ShowOutputPrettyPrint(s.ExactShow[1], TRUE))
     ELSE <<>>)
    \o (IF Len(s.OtherShows) # 0
        THEN Section("*** SHOW RESULTS ***",
                ShowsOutputPrettyPrint(Unpaged("Shows", s.OtherShows), TRUE))
        ELSE <<>>)
    \o (IF Len(s.ShowTags) # 0
        THEN Section("*** SHOW TAG RESULTS ***", <<>>)
        ELSE <<>>)
    \o (IF Len(s.Songs) # 0
        THEN Section("*** SONG RESULTS ***",
                SongsOutputPrettyPrint(Unpaged("Songs", s.Songs), FALSE))
        ELSE <<>>)
    \o (IF Len(s.Tags) # 0
        THEN Section("*** TAG RESULTS ***",
                TagsOutputPrettyPrint([Tags |-> s.Tags], FALSE))
        ELSE <<>>)
    \o (IF Len(s.Tours) # 0
        THEN Section("*** TOUR RESULTS ***",
                ToursOutputPrettyPrint([Tours |-> s.Tours], FALSE))
        ELSE <<>>)
    \o (IF Len(s.TrackTags) # 0
        THEN Section("*** TRACK TAG RESULTS ***",
                TrackTagsOutputPrettyPrint([Tags |-> s.TrackTags], FALSE))
        ELSE <<>>)
    \o (IF Len(s.Tracks) # 0
        THEN Section("*** TRACK RESULTS ***",
                TracksOutputPrettyPrint(Unpaged("Tracks", s.Tracks), FALSE))
        ELSE <<>>)
    \o (IF Len(s.Venues) # 0
        THEN Section("*** VENUE RESULTS ***",
                VenuesOutputPrettyPrint(Unpaged("Venues", s.Venues), FALSE))
        ELSE <<>>)

\* the getters whose display model is transformed and rendered here
Rendered ==
    {"getShow", "getShows", "getYear", "getSongs", "getTracks", "getVenues",
     "getSearch"}

Transform(getter, resp) ==
    CASE getter = "getShow" -> getShow(resp)
      [] getter = "getShows" -> getShows(resp)
      [] getter = "getYear" -> getYear(resp)
      [] getter = "getSongs" -> getSongs(resp)
      [] getter = "getTracks" -> getTracks(resp)
      [] getter = "getVenues" -> getVenues(resp)
      [] getter = "getSearch" -> getSearch(resp)

PrettyPrint(getter, pp, verbose) ==
    CASE getter = "getShow" -> ShowOutputPrettyPrint(pp, verbose)
      [] getter \in {"getShows", "getYear"} ->
            ShowsOutputPrettyPrint(pp, verbose)
      [] getter = "getSongs" -> SongsOutputPrettyPrint(pp, verbose)
      [] getter = "getTracks" -> TracksOutputPrettyPrint(pp, verbose)
      [] getter = "getVenues" -> VenuesOutputPrettyPrint(pp, verbose)
      [] getter = "getSearch" -> SearchOutputPrettyPrint(pp, verbose)

\* sequences of at most n elements of S
RECURSIVE SeqsUpTo(_, _)
SeqsUpTo(S, n) ==
    IF n = 0 THEN {<<>>}
    ELSE LET shorter == SeqsUpTo(S, n - 1) IN
         shorter \cup {Append(q, x) : q \in shorter, x \in S}

\* what the server may hold
SetNames == {"Set 1", "Set 2", "Encore"}
ServerTags == {<<>>, <<[Name |-> "SBD", Group |-> "Audio", Notes |-> ""],
                       [Name |-> "Jamcharts", Group |-> "Curated",
                        Notes |-> "crisp"]>>}

ServerShowsWithSets ==
    {[ServerShow(Len(sets)) EXCEPT
        !.Sbd = sbd, !.Remastered = r, !.Location = loc, !.Tags = tags,
        !.Tracks = [k \in 1..Len(sets) |->
                        [ServerTrack(k) EXCEPT !.SetName = sets[k],
                                               !.Tags = tags]]] :
        sets \in SeqsUpTo(SetNames, MaxSetTracks), sbd \in BOOLEAN,
        r \in BOOLEAN, loc \in {"", "Boulder, CO"}, tags \in ServerTags}

ServerSongs ==
    {[ID |-> 1, Title |-> "Possum", Original |-> TRUE, Artist |-> "",
      TracksCount |-> 2, Tracks |-> <<>>],
     [ID |-> 2, Title |-> "Funky Bitch", Original |-> FALSE,
      Artist |-> "Son Seals", TracksCount |-> 1, Tracks |-> <<>>]}

\* what a search may find: each category is empty or holds one entry; an
\* ExactShow with the ID 0 is the zero value that stands for no exact show
ServerTagListItem ==
    [ID |-> 1, Name |-> "Jamcharts", Slug |-> "jamcharts",
     Group |-> "Curated", Description |-> "Phish.net Jam Charts selections",
     ShowIds |-> <<>>, TrackIds |-> <<7>>]

ServerTour ==
    [ID |-> 1, Name |-> "Spring Tour 1990", ShowsCount |-> 1,
     Slug |-> "spring-tour-1990", StartsOn |-> "1990-04-04",
     EndsOn |-> "1990-04-05", Shows |-> <<ServerShow(0)>>]

ServerTrackTags ==
    {[ID |-> 1, TrackID |-> 7, TagID |-> 1, Notes |-> notes,
      Transcript |-> tr] :
        notes \in {"", "Tweezer &gt; Lizards"}, tr \in {"", "hey"}}

ServerSearches ==
    {[Data |-> [ExactShow |-> es, OtherShows |-> os, ShowTags |-> st,
                Songs |-> so, Tags |-> tg, Tours |-> to, TrackTags |-> tt,
                Tracks |-> tk, Venues |-> ve]] :
        es \in {[ServerShow(1) EXCEPT !.ID = 0], ServerShow(1)},
        os \in {<<>>, <<ServerShow(0)>>},
        st \in {<<>>, <<"costume">>},
        so \in {<<>>} \cup {<<x>> : x \in ServerSongs},
        tg \in {<<>>, <<ServerTagListItem>>},
        to \in {<<>>, <<ServerTour>>},
        tt \in {<<>>} \cup {<<x>> : x \in ServerTrackTags},
        tk \in {<<>>, <<ServerTrack(1)>>},
        ve \in {<<>>, <<ServerVenue>>}}

Envelopes(items) ==
    {[TotalEntries |-> te, TotalPages |-> tp, Page |-> pg, Data |-> d] :
        te \in {0, MaxItems}, tp \in {0, 1}, pg \in {0, 1},
        d \in SeqsUpTo(items, MaxItems)}

ServerData(getter) ==
    CASE getter = "getShow" -> ServerShowsWithSets
      [] getter \in {"getShows", "getYear"} ->
            Envelopes({[ServerShow(0) EXCEPT !.Sbd = sbd, !.Remastered = r] :
                            sbd \in BOOLEAN, r \in BOOLEAN})
      [] getter = "getSongs" -> Envelopes(ServerSongs)
      [] getter = "getTracks" -> Envelopes({ServerTrack(1), ServerTrack(2)})
      [] getter = "getVenues" ->
            Envelopes({ServerVenue,
                       [ServerVenue EXCEPT !.Name = "The Front"]})
      [] getter = "getSearch" -> ServerSearches

RenderCommands ==
    {<<e>> \o q \o v \o o :
        e \in {showsPath, yearsPath, songsPath, tracksPath, venuesPath,
               searchPath},
        q \in Opt("-s", {"1990-04-05"}), v \in Switch("-v"),
        o \in Opt("-o", {"json"})}

InitRender ==
    /\ args \in RenderCommands
    /\ apiKey = "dummy"
    /\ fromArgs(NewClient("dummy"), args).err = ""
    /\ c = fromArgs(NewClient("dummy"), args).c
    /\ Dispatch(c, args[1]) \in Rendered
    /\ data \in ServerData(Dispatch(c, args[1]))
    /\ dirs = {}
    /\ pc = "transform"
    /\ Resting

\* the getter's transform of the decoded response
CallTransform ==
    /\ pc = "transform"
    /\ out' = Transform(Dispatch(c, args[1]), data)
    /\ pc' = "print"
    /\ UNCHANGED <<args, apiKey, c, exitCode, parsed, err, runErr, requests,
                   url, nTracks, tasks, files, data, printed, statusLine,
                   pipeline, dirs, answer, tips>>

PrintResults ==
    /\ pc = "print"
    /\ printed' = IF c.PrintJSON THEN <<Line("json", <<>>)>>
                  ELSE PrettyPrint(Dispatch(c, args[1]), out, c.Verbose)
    /\ tips' = IF /\ ~c.PrintJSON
                   /\ Dispatch(c, args[1]) = "getSearch"
                   /\ ~searchHasResults(out)
                THEN tips + 1 ELSE tips
    /\ pc' = "printed"
    /\ UNCHANGED <<args, apiKey, c, exitCode, parsed, err, runErr, requests,
                   url, nTracks, tasks, files, data, statusLine, out,
                   pipeline, dirs, answer>>

NextRender == CallTransform \/ PrintResults

SpecRender == InitRender /\ [][NextRender]_vars

----------------------------------------------------------------------------
(* Properties *)

\* the values the flag set holds for the command line of the invocation
Given == ParseFlags(Tail(args), FlagDefaults)
Flags == Given.f

Params == Range(c.Parameters)

PerPageEntry(n) == "per_page=" \o ToString(n)
PageEntry(n) == "page=" \o ToString(n)
PagingEntries ==
    {PerPageEntry(n) : n \in IntValues} \cup {PageEntry(n) : n \in IntValues}
SortEntries ==
    {"sort_dir=" \o d : d \in SortDirs \cup {"phish", ""}}
        \cup {"sort_attr=date"}
TagEntries == {"tag=sbd"}

Paged == {showsPath, tracksPath, songsPath, venuesPath}

\* C1: FormatURL returns BaseURL/path/Query with no parameter in it when
\* Query is non-empty; BaseURL/path?p1&p2&... with the parameters in list
\* order when Query is empty and there are parameters; BaseURL/path with no
\* "?" when both are empty.
C1_FormatURL ==
    pc = "formatted" =>
        LET path == args[1]
            ps == c.Parameters
        IN  /\ c.Query # "" =>
                /\ url = <<BaseURL, "/", path, "/", c.Query>>
                /\ \A i \in 1..Len(ps) : ps[i] \notin Range(url)
            /\ (c.Query = "" /\ Len(ps) # 0) =>
                /\ Len(url) = 3 + 2 * Len(ps)
                /\ SubSeq(url, 1, 4) = <<BaseURL, "/", path, "?">>
                /\ \A i \in 1..Len(ps) : url[3 + 2 * i] = ps[i]
                /\ \A i \in 1..(Len(ps) - 1) : url[4 + 2 * i] = "&"
            /\ (c.Query = "" /\ Len(ps) = 0) =>
                /\ url = <<BaseURL, "/", path>>
                /\ "?" \notin Range(url)

C1_Witness ==
    /\ pc = "formatted"
    /\ c.Query # ""
    /\ Len(c.Parameters) >= 2
    /\ url = <<BaseURL, "/", args[1], "/", c.Query>>

\* C2: for venues, shows, tracks and songs, fromArgs on a fresh client adds
\* per_page=v exactly when v # 20 and v > 0, and page=p exactly when p > 1;
\* it adds no other paging entry and returns no error.
C2_PageParams ==
    (pc = "called" /\ args[1] \in Paged) =>
        /\ err = ""
        /\ PerPageEntry(Flags.perPage) \in Params
                <=> (Flags.perPage # 20 /\ Flags.perPage > 0)
        /\ PageEntry(Flags.page) \in Params <=> Flags.page > 1
        /\ Params \cap PagingEntries
                \subseteq {PerPageEntry(Flags.perPage), PageEntry(Flags.page)}

C2_Witness ==
    /\ pc = "called"
    /\ args[1] = venuesPath
    /\ Flags.perPage = DefaultPerPage + 1
    /\ Flags.page = DefaultPage
    /\ c.Parameters = <<PerPageEntry(DefaultPerPage + 1)>>

\* C3: pagination and sort flags add entries only for shows, tracks, songs
\* and venues, the tag flag only for shows and tracks; for eras, tours and
\* tags the parameter list stays empty and fromArgs returns no error.
C3_ListFlagsOnlyWhereSupported ==
    pc = "called" =>
        /\ args[1] \notin Paged =>
                Params \cap (PagingEntries \cup SortEntries) = {}
        /\ args[1] \notin {showsPath, tracksPath} => Params \cap TagEntries = {}
        /\ args[1] \in {erasPath, toursPath, tagsPath} =>
                (c.Parameters = <<>> /\ err = "")

C3_Witness ==
    /\ pc = "called"
    /\ args[1] = toursPath
    /\ Flags.perPage = MaxInt
    /\ Flags.page = MaxInt
    /\ Flags.sortDir = "asc"
    /\ Flags.sortAttr = "date"
    /\ Flags.tag = "sbd"
    /\ c.Parameters = <<>>

\* C4: for years, the parameter list after fromArgs on a fresh client is
\* exactly the one entry include_show_counts=true, whatever the other flags.
C4_YearsShowCounts ==
    (pc = "called" /\ args[1] = yearsPath) =>
        c.Parameters = <<"include_show_counts=true">>

C4_Witness ==
    /\ pc = "called"
    /\ args[1] = yearsPath
    /\ Flags.perPage = MaxInt
    /\ Flags.page = MaxInt
    /\ Flags.sortDir = "desc"
    /\ Flags.tag = "sbd"
    /\ Flags.output = "json"
    /\ Flags.verbose
    /\ c.Parameters = <<"include_show_counts=true">>

\* C5: for an endpoint that accepts sorting, fromArgs adds sort_dir=d exactly
\* when the raw direction d is "asc" or "desc"; any other value adds no
\* sort_dir entry and is not an error.
C5_SortDir ==
    (pc = "called" /\ args[1] \in Paged) =>
        /\ err = ""
        /\ ("sort_dir=" \o Flags.sortDir) \in Params
                <=> Flags.sortDir \in {"asc", "desc"}
        /\ \A e \in Params \cap SortEntries :
                e \in {"sort_dir=" \o Flags.sortDir,
                       "sort_attr=" \o Flags.sortAttr}

C5_Witness ==
    /\ pc = "called"
    /\ args[1] = songsPath
    /\ Flags.sortDir = "ASC"
    /\ Flags.sortAttr = "date"
    /\ c.Parameters = <<"sort_attr=date">>

\* the flag set accepted the command line and fromArgs went on to its switch
Normalized == Len(args) > 0 /\ parsed /\ Given.status = "ok"

\* C6: for random-show the identifier is empty after fromArgs whatever was
\* given to -s/--search, fromArgs returns no error, and the URL requested is
\* BaseURL/random-show.
C6_RandomShowDropsQuery ==
    (Normalized /\ args[1] = randomShowPath) =>
        /\ c.Query = ""
        /\ err = ""
        /\ \A i \in 1..Len(requests) :
                requests[i] = <<BaseURL, "/", randomShowPath>>

C6_Witness ==
    /\ Normalized
    /\ args[1] = randomShowPath
    /\ Flags.query # ""
    /\ c.Query = ""
    /\ requests = <<(<<BaseURL, "/", randomShowPath>>)>>

\* C7: for show-on-date, shows-on-day-of-year and search, fromArgs returns an
\* error exactly when the identifier is empty (absent or given as ""); on
\* the error path Run exits with 1 and no request has been issued.
C7_RequiredQuery ==
    (Normalized
        /\ args[1] \in {showOnDatePath, showsDayOfYearPath, searchPath}) =>
        /\ Flags.query = "" =>
                (err # "" /\ pc = "done" /\ exitCode = 1 /\ requests = <<>>)
        /\ Flags.query # "" => err = ""

C7_Witness ==
    /\ Normalized
    /\ args[1] = searchPath
    /\ Flags.query = ""
    /\ err = "need a search term"
    /\ exitCode = 1
    /\ requests = <<>>

\* C8: an output-format value other than "text" and "json" makes argument
\* normalization fail, and no request is made.
C8_InvalidOutputRejected ==
    (Normalized /\ args[1] \in Endpoints
        /\ Flags.output \notin {"text", "json"}) =>
        (err # "" /\ requests = <<>>)

\* C9: Run returns 1 without parsing flags and without any request when no
\* argument is given, and when an endpoint is given but PHISHIN_API_KEY is
\* unset or empty.
C9_NoArgumentOrNoKey ==
    (Len(args) = 0 \/ (args[1] \in Endpoints /\ apiKey = "")) =>
        /\ ~parsed
        /\ requests = <<>>
        /\ pc \in {"start", "done"}
        /\ pc = "done" => exitCode = 1

C9_Witness ==
    /\ Len(args) > 1
    /\ args[1] \in Endpoints
    /\ apiKey = ""
    /\ pc = "done"
    /\ exitCode = 1
    /\ ~parsed

\* C10: every invocation ends with exit code 0 or 1, a flag-parse error
\* included; no other exit code is produced.
C10_ExitCodeZeroOrOne ==
    pc = "done" => exitCode \in {0, 1}

\* C11: for every ms >= 0 the duration is "<h>h <m>m" when h > 0 and
\* "<m>m <s>s" otherwise, with h = floor(ms / 3600000), m the whole minutes
\* left after the hours and s the whole seconds left after the minutes,
\* whatever the length in hours.
C11_DurationOfAnyLength ==
    pc = "converted" =>
        LET ms == data.Duration
            h == ms \div 3600000
            m == (ms \div 60000) % 60
            sec == (ms \div 1000) % 60
        IN  out = IF h > 0
                  THEN ToString(h) \o "h " \o ToString(m) \o "m"
                  ELSE ToString(m) \o "m " \o ToString(sec) \o "s"

\* the functions of the group that are between the two Printf of their
\* PrintProgress
Printing == {i \in 1..Len(tasks) : tasks[i] = "printing"}

Failed == {i \in 1..Len(tasks) : tasks[i] = "failed"}

\* C12: while the tracks of a show are downloaded, at most four download
\* functions are running at any moment.
C12_AtMostFourDownloads ==
    Cardinality(Running) <= 4

C12_Witness ==
    /\ pc = "spawn"
    /\ Len(tasks) < nTracks
    /\ Cardinality(Running) = 4

\* C13: the track at position i of the show, counted from 0, is written to
\* "<i+1>-<slug>.mp3" in the directory named by the show date; the number
\* is the one of the position, whatever has happened to the other
\* downloads since, and no two functions have the same number.
C13_TrackFileNames ==
    (parsed /\ Dispatch(c, args[1]) = "getShow") =>
        /\ Len(files) = Len(tasks)
        /\ \A i \in 0..(Len(files) - 1) :
            /\ files[i + 1].dir = data.Date
            /\ files[i + 1].name =
                    ToString(i + 1) \o "-" \o data.Tracks[i + 1].Slug
                        \o ".mp3"
        /\ \A i, j \in 1..Len(files) :
            i # j => files[i].name # files[j].name

C13_Witness ==
    /\ Len(files) >= 3
    /\ tasks[1] = "failed"
    /\ tasks[2] = "printing"
    /\ files[1] = [dir |-> "1990-04-05", name |-> "1-possum.mp3"]
    /\ files[3] = [dir |-> "1990-04-05", name |-> "3-possum.mp3"]

\* C14: when a download was requested and the fetch and the rendering
\* succeeded, the exit code is 1 if at least one download function failed
\* and 0 otherwise.
C14_ExitCodeAfterDownloads ==
    (pc = "done" /\ c.Download /\ err = "" /\ runErr = ""
        /\ printed # <<>>) =>
        exitCode = IF Failed # {} THEN 1 ELSE 0

C14_Witness ==
    /\ pc = "done"
    /\ c.Download
    /\ runErr = ""
    /\ printed # <<>>
    /\ Cardinality(Failed) = 1
    /\ Len(tasks) > 1
    /\ exitCode = 1

\* C15: the progress status is written by one owner only, the download
\* functions never write to the console themselves, so no two functions
\* are ever in the middle of writing their status at once.
C15_StatusWritesNeverInterleave ==
    Cardinality(Printing) <= 1

\* C16: with the raw-output flag the command makes one fetch and prints the
\* decoded generic envelope as indented JSON; whatever the other flags, no
\* transform or renderer runs, no download is started and nothing else is
\* printed.
C16_RawOutputOnly ==
    (Normalized /\ Flags.raw) =>
        /\ pc \notin {"spawn", "render"}
        /\ tasks = <<>>
        /\ files = <<>>
        /\ nTracks = 0
        /\ Len(requests) <= 1
        /\ printed \in {<<>>, <<"raw json">>}
        /\ (pc = "done" /\ exitCode = 0) =>
                (Len(requests) = 1 /\ printed = <<"raw json">>)

C16_Witness ==
    /\ Normalized
    /\ args[1] = showsPath
    /\ Flags.raw
    /\ Flags.download
    /\ Flags.debug
    /\ Flags.output = "json"
    /\ pc = "done"
    /\ exitCode = 0
    /\ printed = <<"raw json">>

\* the getter that serves the command line, and what it has printed
Getter == Dispatch(c, args[1])
TextPrinted == pc = "printed" /\ ~c.PrintJSON
LinesOf(k) == {p \in 1..Len(printed) : printed[p].k = k}

\* C17: each list renderer (shows, songs, tracks, venues) appends the
\* pagination footer if and only if the envelope's total of entries is not
\* zero, whatever the other fields of the envelope; a zero envelope, as for
\* the shows of a year, never has a footer.
C17_FooterIffTotalEntries ==
    (TextPrinted /\ Getter \in {"getShows", "getYear", "getSongs",
                                 "getTracks", "getVenues"}) =>
        (LinesOf("footer") # {} <=> out.TotalEntries # 0)

\* position in the output of the line of the j-th track of the listing
TrackLinePos(j) ==
    CHOOSE p \in LinesOf("track") :
        Cardinality({q \in LinesOf("track") : q <= p}) = j

\* the tracks that begin a maximal run of equal consecutive set names
RunStarts(tracks) ==
    {j \in 1..Len(tracks) :
        j = 1 \/ tracks[j].SetName # tracks[j - 1].SetName}

\* C18: in the track listing of a show, verbose or not, a set heading
\* stands before a track exactly when the track is the first one or its set
\* name differs from the one of the track before it, at every position; so
\* there are as many headings as maximal runs of equal set names.
C18_SetHeadingAtEveryChange ==
    (TextPrinted /\ Getter = "getShow") =>
        /\ Cardinality(LinesOf("track")) = Len(out.Tracks)
        /\ \A j \in 1..Len(out.Tracks) :
                printed[TrackLinePos(j) - 1] =
                        Line("set", <<out.Tracks[j].SetName>>)
                    <=> j \in RunStarts(out.Tracks)
        /\ Cardinality(LinesOf("set")) = Cardinality(RunStarts(out.Tracks))

YesOrEmpty(b) == IF b THEN "yes" ELSE ""

\* C19: in every text table with the soundboard and remastered columns the
\* cell is "yes" for a true flag and empty for a false one; no cell reads
\* "no".
C19_FalseFlagIsEmptyCell ==
    (TextPrinted /\ c.Verbose) =>
        /\ Getter = "getShow" =>
            /\ printed[2].cells[6] = YesOrEmpty(out.Sbd)
            /\ printed[2].cells[7] = YesOrEmpty(out.Remastered)
        /\ Getter \in {"getShows", "getYear"} =>
            \A k \in 1..Len(out.Shows) :
                /\ printed[k + 1].cells[6] = YesOrEmpty(out.Shows[k].Sbd)
                /\ printed[k + 1].cells[7] =
                        YesOrEmpty(out.Shows[k].Remastered)
        /\ \A p \in 1..Len(printed) :
            \A n \in 1..Len(printed[p].cells) : printed[p].cells[n] # "no"

\* C20: the display model of a wire show of N tracks has N tracks, and its
\* k-th track is the transform of the k-th wire track, with the same id,
\* title and set name: the order is kept.
C20_TracksKeptInOrder ==
    (pc \in {"print", "printed"} /\ Getter = "getShow") =>
        /\ Len(out.Tracks) = Len(data.Tracks)
        /\ \A k \in 1..Len(data.Tracks) :
            /\ out.Tracks[k] = convertTrackToOutput(data.Tracks[k])
            /\ out.Tracks[k].ID = data.Tracks[k].ID
            /\ out.Tracks[k].Title = data.Tracks[k].Title
            /\ out.Tracks[k].SetName = data.Tracks[k].SetName

C20_Witness ==
    /\ pc = "print"
    /\ Getter = "getShow"
    /\ Len(data.Tracks) = 3
    /\ data.Tracks[1].SetName = "Set 1"
    /\ data.Tracks[3].SetName = "Encore"
    /\ out.Tracks[1].ID = 6693
    /\ out.Tracks[1].SetName = "Set 1"
    /\ out.Tracks[3].ID = 6695
    /\ out.Tracks[3].SetName = "Encore"
    /\ out.Tracks[3].Duration = "6m 8s"

\* C22: the short flag -d sets the sort direction: on an endpoint that
\* accepts sorting, "-d asc" and "-d desc" give the parameter sort_dir=asc
\* and sort_dir=desc, as --sort-dir does, and set nothing else.
C22_ShortFlagSetsSortDir ==
    (pc = "called" /\ args[1] \in Paged /\ Len(args) = 3 /\ args[2] = "-d"
        /\ args[3] \in {"asc", "desc"}) =>
        /\ c.Parameters = <<"sort_dir=" \o args[3]>>
        /\ c = fromArgs(NewClient(apiKey),
                        <<args[1], "--sort-dir", args[3]>>).c

\* the pipeline that the routing table gives for an endpoint
DetailPipeline ==
    (erasPath :> "getEra") @@ (yearsPath :> "getYear") @@
    (songsPath :> "getSong") @@ (toursPath :> "getTour") @@
    (venuesPath :> "getVenue") @@ (showsPath :> "getShow") @@
    (tracksPath :> "getTrack") @@ (tagsPath :> "getTag")

ListPipeline ==
    (erasPath :> "getEras") @@ (yearsPath :> "getYears") @@
    (songsPath :> "getSongs") @@ (toursPath :> "getTours") @@
    (venuesPath :> "getVenues") @@ (showsPath :> "getShows") @@
    (tracksPath :> "getTracks") @@ (tagsPath :> "getTags")

Routed(path, hasIdentifier) ==
    IF path \in {showOnDatePath, randomShowPath} THEN "getShow"
    ELSE IF path = showsDayOfYearPath THEN "getShows"
    ELSE IF path = searchPath THEN "getSearch"
    ELSE IF hasIdentifier THEN DetailPipeline[path]
    ELSE ListPipeline[path]

ShowDownload ==
    parsed /\ c.Download /\ ~c.RawOutput /\ Dispatch(c, args[1]) = "getShow"

ShowRendered ==
    \E p \in 1..Len(printed) : printed[p] \in {"text", "json"}

\* C24: when the download of a show is requested, the directory named by
\* the date of the show is created before any download is started; when the
\* creation fails, as it does when the directory exists, getShow returns an
\* error: no download is started, no track file is created, the show is not
\* rendered.
C24_DirectoryBeforeDownloads ==
    /\ [](ShowDownload =>
            /\ tasks # <<>> => data.Date \in dirs
            /\ runErr = "unable to create directory" =>
                /\ pc = "done"
                /\ exitCode = 1
                /\ tasks = <<>>
                /\ files = <<>>
                /\ ~ShowRendered)
    /\ [][(pc = "run" /\ ShowDownload /\ data.Date \in dirs) =>
            /\ pc' = "done"
            /\ exitCode' = 1
            /\ tasks' = <<>>
            /\ files' = <<>>
            /\ ~ShowRendered']_vars

C24_Witness ==
    /\ ShowDownload
    /\ answer = "ok"
    /\ Len(data.Tracks) > 1
    /\ data.Date \in dirs
    /\ runErr = "unable to create directory"
    /\ pc = "done"
    /\ exitCode = 1
    /\ tasks = <<>>

\* C25: with the debug flag the constructed URL is written to the output
\* before the main request, in the text, JSON and raw output modes; without
\* the flag it is never written.
C25_DebugPrintsURLInEveryMode ==
    (Normalized /\ requests # <<>>) =>
        IF Flags.debug
        THEN printed # <<>> /\ printed[1] = "url"
        ELSE \A p \in 1..Len(printed) : printed[p] # "url"

\* C26: a 200 answer whose body cannot be decoded makes the invocation
\* fail in the text, JSON and raw output modes: run returns an error,
\* nothing is rendered and the exit code is 1.
C26_UndecodableBodyFails ==
    answer = "undecodable body" =>
        /\ pc = "done"
        /\ exitCode = 1
        /\ runErr # ""
        /\ \A p \in 1..Len(printed) : printed[p] = "url"

IsPrefix(a, b) == Len(a) <= Len(b) /\ SubSeq(b, 1, Len(a)) = a

\* what a call of fromArgs on a fresh client puts into Parameters
Contribution(a) == fromArgs(NewClient(apiKey), a).c.Parameters

\* C27: fromArgs only appends to Client.Parameters: what was in the list
\* before a call is its prefix afterwards, and the list after a sequence of
\* calls on one client is the concatenation of what each call contributes.
C27_FromArgsOnlyAppends ==
    [][/\ IsPrefix(c.Parameters, c'.Parameters)
       /\ pc = "args" =>
            c'.Parameters = c.Parameters \o Contribution(args)]_vars

C27_Witness ==
    /\ pc = "called"
    /\ args = <<showsPath, "-t", "sbd">>
    /\ c.Parameters = <<"include_show_counts=true", "sort_dir=asc",
                        "sort_attr=date", "tag=sbd">>

\* C28: for a show of N tracks, once the directory is created, getShow
\* starts exactly N downloads, one for each track and each once, also when
\* earlier ones have failed: a failure neither keeps a later download from
\* being started nor ends a download that is running.
C28_EveryTrackIsDownloaded ==
    /\ [](ShowDownload =>
            /\ pc = "spawn" =>
                /\ Len(tasks) < nTracks
                /\ Cardinality(Running) < GroupLimit => ENABLED Spawn
            /\ (pc \in {"render", "wait"}
                    \/ (pc = "done" /\ runErr = "write error")) =>
                /\ Len(tasks) = Len(data.Tracks)
                /\ \A i \in 1..Len(data.Tracks) :
                    files[i].name = fileName(i, data.Tracks[i]))
    /\ [][/\ Len(tasks') >= Len(tasks)
          /\ \A i \in 1..Len(tasks) :
                tasks'[i] # tasks[i] =>
                    \A j \in 1..Len(tasks) \ {i} : tasks'[j] = tasks[j]]_vars

C28_Witness ==
    /\ ShowDownload
    /\ pc = "render"
    /\ Len(data.Tracks) = 5
    /\ Len(tasks) = 5
    /\ \A i \in 1..4 : tasks[i] = "failed"
    /\ tasks[5] = "running"

\* C29: Run gives its exit code only when every download it has started
\* has finished: it has never returned, with 0 or with 1, while a download
\* is running, also when the fetch or the rendering fails after downloads
\* were started.
C29_NoReturnWhileDownloading ==
    pc = "done" => Running = {}

\* C30: when every download comes to its end, handing N of them to the
\* group of limit 4 never deadlocks, for N = 0 and N > 4 too: every track
\* gets its download, getShow returns, and the final Wait of Run returns.
C30_DownloadsNeverDeadlock ==
    /\ <>(pc = "done")
    /\ (pc = "spawn") ~> (pc # "spawn" /\ Len(tasks) = nTracks)
    /\ (pc = "wait") ~> (pc = "done" /\ Running = {})

C30_Witness ==
    /\ pc = "done"
    /\ exitCode = 0
    /\ Len(data.Tracks) = 5
    /\ Len(tasks) = 5
    /\ \A i \in 1..5 : tasks[i] = "ok"

\* the titles of the sections of a search, in the order of the categories,
\* and whether the response holds anything in the category numbered k
SectionTitles ==
    <<"*** EXACT SHOW RESULTS ***", "*** SHOW RESULTS ***",
      "*** SONG RESULTS ***", "*** TAG RESULTS ***", "*** TOUR RESULTS ***",
      "*** TRACK TAG RESULTS ***", "*** TRACK RESULTS ***",
      "*** VENUE RESULTS ***">>

Populated(k) ==
    CASE k = 1 -> data.Data.ExactShow.ID # 0
      [] k = 2 -> data.Data.OtherShows # <<>>
      [] k = 3 -> data.Data.Songs # <<>>
      [] k = 4 -> data.Data.Tags # <<>>
      [] k = 5 -> data.Data.Tours # <<>>
      [] k = 6 -> data.Data.TrackTags # <<>>
      [] k = 7 -> data.Data.Tracks # <<>>
      [] k = 8 -> data.Data.Venues # <<>>

RECURSIVE TitlesUpTo(_)
TitlesUpTo(k) ==
    IF k = 0 THEN <<>>
    ELSE TitlesUpTo(k - 1)
            \o (IF Populated(k) THEN <<SectionTitles[k]>> ELSE <<>>)

IsSection(l) == l.k = "section"

SectionsPrinted ==
    LET ls == SelectSeq(printed, IsSection)
    IN  [p \in 1..Len(ls) |-> ls[p].cells[1]]

\* C21: the text rendering of a search writes the search tips and no
\* section title when every category of the response is empty; otherwise
\* it writes one section title for each category that is not empty, in
\* the order exact show, other shows, songs, tags, tours, track tags,
\* tracks, venues, and does not write the search tips.
C21_SearchSectionsOrTips ==
    (Len(args) > 0 /\ TextPrinted /\ Getter = "getSearch") =>
        /\ SectionsPrinted = TitlesUpTo(8)
        /\ (TitlesUpTo(8) = <<>>) => (tips = 1 /\ printed = <<>>)
        /\ (TitlesUpTo(8) # <<>>) => tips = 0

C21_Witness ==
    /\ Len(args) > 0
    /\ TextPrinted
    /\ Getter = "getSearch"
    /\ SectionsPrinted = <<"*** SONG RESULTS ***", "*** TRACK TAG RESULTS ***",
                           "*** VENUE RESULTS ***">>
    /\ data.Data.ShowTags # <<>>
    /\ tips = 0

====
